---- MODULE Spec2Model ----
(***************************************************************************)
(* A model of grpcmock: the method address (method.rs), the length-prefixed *)
(* message codec and the HTTP -> gRPC status table (utils.rs), the mock     *)
(* registry (mock.rs), the mock server and its request handler (server.rs)  *)
(* and the start of the generated server (codegen.rs).                      *)
(*                                                                          *)
(* Strings are sequences of one-character strings, byte strings are         *)
(* sequences of integers in 0..255.  Each component has a specification of  *)
(* its own (SpecMethod, SpecFrame, SpecStatus, SpecRegistration,           *)
(* SpecRegistry, Spec, SpecLoad, SpecFixtures, SpecStart, SpecLifecycle,    *)
(* SpecConcurrent); the variables of the other components stay at their     *)
(* initial values.                                                          *)
(***************************************************************************)
EXTENDS Integers, Sequences, FiniteSets, TLC

VARIABLES
    in_service,   \* method.rs: the `service` argument of the last GrpcMethod::new
    in_name,      \* method.rs: the `name` argument of the last GrpcMethod::new
    method,       \* method.rs: the Result of the last GrpcMethod::new
    path,         \* method.rs: the last path string (GrpcMethod::path, or a raw input)
    path_src,     \* where `path` came from: "none", "format" or "raw"
    parsed,       \* method.rs: the Result of the last str::parse::<GrpcMethod>
    payload,      \* utils.rs: the encoded message MessageExt::to_bytes is applied to
    frame,        \* utils.rs: the bytes to_bytes returned (<<>>: not called yet)
    status_code,  \* utils.rs: the http::StatusCode CodeExt::from_http is applied to
    grpc_code,    \* utils.rs: the tonic::Code from_http returned ("none": not called yet)
    mocks,        \* mock.rs: the MockSet the caller builds, method -> list of mocks
    registered,   \* history: per method, the mocks handed to the MockSet, in order
    found,        \* mock.rs: the arguments and the result of the last MockSet::find
    loaded,       \* mock.rs: the file and the result of the last MockSet::insert_from_file
    server,       \* server.rs: the MockServer (its name, address and shared state)
    reqs,         \* server.rs: per request, where MockServer::handle stands and what it holds
    probed,       \* utils.rs: the ports find_available_port has bound (and released)
    task,         \* codegen.rs: the background task running tonic's Server::serve
    life          \* codegen.rs: where start()/serve()/_start stands, and the instances held

addr_vars == <<in_service, in_name, method, path, path_src, parsed>>
frame_vars == <<payload, frame>>
status_vars == <<status_code, grpc_code>>

server_vars == <<mocks, registered, found, server, reqs>>
load_vars == <<loaded>>
life_vars == <<probed, task, life>>

vars == <<addr_vars, frame_vars, status_vars, server_vars, life_vars, load_vars>>

\* What the actions of one component leave alone.
not_addr_vars == <<frame_vars, status_vars, server_vars, life_vars, load_vars>>
not_frame_vars == <<addr_vars, status_vars, server_vars, life_vars, load_vars>>
not_status_vars == <<addr_vars, frame_vars, server_vars, life_vars, load_vars>>
not_server_vars == <<addr_vars, frame_vars, status_vars, load_vars>>
not_load_vars == <<addr_vars, frame_vars, status_vars>>

(***************************************************************************)
(* Bounds.                                                                  *)
(***************************************************************************)
MaxServiceLen == 3
MaxNameLen == 2
MaxPathLen == 5
MaxPayloadLen == 3
MaxMocks == 2
MaxClones == 2

\* All strings over `chars` of length at most n.
Strs(chars, n) == UNION {[1..k -> chars] : k \in 0..n}

(***************************************************************************)
(* method.rs                                                                *)
(***************************************************************************)

\* The characters the model draws strings from: two letters of each case,
\* the package separator and the path separator.
AddrChars == {"S", "p", ".", "/"}

\* char::is_uppercase on the model's alphabet.
IsUppercase(c) == c \in {"S", "T", "M", "N"}

\* str::split(sep): the pieces between separators; an empty string has one
\* empty piece.
RECURSIVE SplitAcc(_, _, _, _, _)
SplitAcc(s, sep, i, cur, acc) ==
    IF i > Len(s) THEN Append(acc, cur)
    ELSE IF s[i] = sep THEN SplitAcc(s, sep, i + 1, <<>>, Append(acc, cur))
    ELSE SplitAcc(s, sep, i + 1, Append(cur, s[i]), acc)

Split(s, sep) == SplitAcc(s, sep, 1, <<>>, <<>>)

\* Result<GrpcMethod, Error>: Ok(GrpcMethod {service, name}) or
\* Err(Error::Invalid(msg)).
OkMethod(service, name) ==
    [ok |-> TRUE, service |-> service, name |-> name, err |-> ""]

ErrInvalid(msg) ==
    [ok |-> FALSE, service |-> <<>>, name |-> <<>>, err |-> msg]

\* No call made yet.
NoResult == [ok |-> FALSE, service |-> <<>>, name |-> <<>>, err |-> "none"]

\* The texts of Error::Invalid (the path text is written without its
\* backquotes).
ServiceUppercaseMsg == "service should start with uppercase"
NameUppercaseMsg == "name should start with uppercase"
PathFormatMsg == "path should be formatted <service>/<name>"

\* chars().nth(0).is_some_and(|c| !c.is_uppercase())
FirstCharNotUppercase(s) == Len(s) > 0 /\ ~IsUppercase(s[1])

\* GrpcMethod::new
New(service, name) ==
    LET service_parts == Split(service, ".")
        last == service_parts[Len(service_parts)]
    IN  IF FirstCharNotUppercase(last) THEN ErrInvalid(ServiceUppercaseMsg)
        ELSE IF FirstCharNotUppercase(name) THEN ErrInvalid(NameUppercaseMsg)
        ELSE OkMethod(service, name)

\* GrpcMethod::path (and Display): "/{service}/{name}"
Path(m) == <<"/">> \o m.service \o <<"/">> \o m.name

\* impl FromStr for GrpcMethod
FromStr(s) ==
    LET t == IF Len(s) > 0 /\ s[1] = "/" THEN Tail(s) ELSE s
        parts == Split(t, "/")
    IN  IF Len(parts) # 2 THEN ErrInvalid(PathFormatMsg)
        ELSE New(parts[1], parts[2])

\* The other components at rest.
AddrIdle ==
    /\ in_service = <<>>
    /\ in_name = <<>>
    /\ method = NoResult
    /\ path = <<>>
    /\ path_src = "none"
    /\ parsed = NoResult

\* The inputs are drawn here: either a (service, name) pair a caller hands to
\* GrpcMethod::new, or a raw path (a request URI) handed to parse.
AddrInit ==
    /\ method = NoResult
    /\ parsed = NoResult
    /\ \/ /\ in_service \in Strs(AddrChars, MaxServiceLen)
          /\ in_name \in Strs(AddrChars, MaxNameLen)
          /\ path = <<>>
          /\ path_src = "none"
       \/ /\ in_service = <<>>
          /\ in_name = <<>>
          /\ path \in Strs(AddrChars, MaxPathLen)
          /\ path_src = "raw"

\* A caller constructs an address: GrpcMethod::new(service, name).
MethodNew ==
    /\ path_src = "none"
    /\ method = NoResult
    /\ method' = New(in_service, in_name)
    /\ UNCHANGED <<in_service, in_name, path, path_src, parsed, not_addr_vars>>

\* A caller formats the address it constructed: method.path().
MethodPath ==
    /\ method.ok
    /\ path_src = "none"
    /\ path' = Path(method)
    /\ path_src' = "format"
    /\ UNCHANGED <<in_service, in_name, method, parsed, not_addr_vars>>

\* A caller parses the path at hand: path.parse::<GrpcMethod>().
MethodFromStr ==
    /\ path_src # "none"
    /\ parsed = NoResult
    /\ parsed' = FromStr(path)
    /\ UNCHANGED <<in_service, in_name, method, path, path_src, not_addr_vars>>

MethodNext ==
    \/ MethodNew
    \/ MethodPath
    \/ MethodFromStr

(***************************************************************************)
(* utils.rs: prost::MessageExt::to_bytes                                    *)
(***************************************************************************)

\* Byte values the short payloads are drawn from.
ByteSample == {0, 1, 128, 255}

\* Payload lengths past one, two and three length bytes.
LongPayloadLens == {255, 256, 65536, 66051}

Payloads ==
    Strs(ByteSample, MaxPayloadLen)
        \cup {[i \in 1..n |-> i % 256] : n \in LongPayloadLens}

\* put_u32 with the byte order reversed (least significant byte first).
PutU32LittleEndian(n) ==
    << n % 256, (n \div 256) % 256, (n \div 65536) % 256, (n \div 16777216) % 256 >>

\* BufMut::put_u32: the four bytes of n, most significant first.
PutU32(n) ==
    << (n \div 16777216) % 256, (n \div 65536) % 256, (n \div 256) % 256, n % 256 >>

\* MessageExt::to_bytes, applied to a message whose protobuf encoding is p:
\* five reserved bytes, the encoding, then the flag byte 0 and the length
\* written into the reserved bytes.  (`len as u32` keeps every length the
\* model can build: they are all below 2^31.)
ToBytes(p) == <<0>> \o PutU32(Len(p)) \o p

FrameIdle ==
    /\ payload = <<>>
    /\ frame = <<>>

FrameInit ==
    /\ payload \in Payloads
    /\ frame = <<>>

\* message.to_bytes()
Encode ==
    /\ frame = <<>>
    /\ frame' = ToBytes(payload)
    /\ UNCHANGED <<payload, not_frame_vars>>

(***************************************************************************)
(* utils.rs: tonic::CodeExt::from_http                                      *)
(***************************************************************************)

\* The values of http::StatusCode.
HttpStatusCodes == 100..999

\* from_http without the UNPROCESSABLE_ENTITY alternative of its first arm.
FromHttpWithout422(code) ==
    CASE code = 400 -> "Internal"
      [] code = 401 -> "Unauthenticated"
      [] code = 403 -> "PermissionDenied"
      [] code = 404 -> "NotFound"
      [] code = 501 -> "Unimplemented"
      [] code \in {429, 502, 503, 504} -> "Unavailable"
      [] code = 200 -> "Ok"
      [] OTHER -> "Unknown"

\* CodeExt::from_http
FromHttp(code) ==
    CASE code \in {400, 422} -> "Internal"
      [] code = 401 -> "Unauthenticated"
      [] code = 403 -> "PermissionDenied"
      [] code = 404 -> "NotFound"
      [] code = 501 -> "Unimplemented"
      [] code \in {429, 502, 503, 504} -> "Unavailable"
      [] code = 200 -> "Ok"
      [] OTHER -> "Unknown"

StatusIdle ==
    /\ status_code = 200
    /\ grpc_code = "none"

StatusInit ==
    /\ status_code \in HttpStatusCodes
    /\ grpc_code = "none"

\* tonic::Code::from_http(status_code)
MapStatus ==
    /\ grpc_code = "none"
    /\ grpc_code' = FromHttp(status_code)
    /\ UNCHANGED <<status_code, not_status_vars>>

(***************************************************************************)
(* mock.rs: MockBody, MockRequest, MockResponse, Mock                       *)
(***************************************************************************)

\* The concatenation of a sequence of byte strings (<[Bytes]>::concat, and
\* what collecting a body stream leaves).
RECURSIVE Concat(_)
Concat(chunks) ==
    IF chunks = <<>> THEN <<>> ELSE Head(chunks) \o Concat(Tail(chunks))

\* enum MockBody { Empty, Full(Bytes), Stream(Vec<Bytes>) }
BodyEmpty == [tag |-> "Empty", full |-> <<>>, chunks |-> <<>>]
BodyFull(data) == [tag |-> "Full", full |-> data, chunks |-> <<>>]
BodyStream(data) == [tag |-> "Stream", full |-> <<>>, chunks |-> data]

\* PartialEq in which a Stream body never equals a byte string.
BodyEqStreamNever(body, other) ==
    CASE body.tag = "Empty" -> other = <<>>
      [] body.tag = "Full" -> body.full = other
      [] body.tag = "Stream" -> FALSE

\* PartialEq in which a Stream body is compared by its first chunk alone.
BodyEqFirstChunk(body, other) ==
    CASE body.tag = "Empty" -> other = <<>>
      [] body.tag = "Full" -> body.full = other
      [] body.tag = "Stream" -> body.chunks # <<>> /\ body.chunks[1] = other

\* impl PartialEq<[u8]> for MockBody
BodyEq(body, other) ==
    CASE body.tag = "Empty" -> other = <<>>
      [] body.tag = "Full" -> body.full = other
      [] body.tag = "Stream" -> Concat(body.chunks) = other

\* MockBody::to_boxed: the data frames of the HTTP body, in order.
ToBoxed(body) ==
    CASE body.tag = "Empty" -> <<>>
      [] body.tag = "Full" -> <<body.full>>
      [] body.tag = "Stream" -> body.chunks

\* HeaderMap: a set of <<name, value>> pairs.
NoHeaders == {}

\* Option<String>
NoError == [some |-> FALSE, text |-> ""]
SomeError(text) == [some |-> TRUE, text |-> text]

\* http::StatusCode::default()
DefaultCode == 200

\* MockRequest::new(body): the other fields are defaults.
MockRequestNew(body) == [headers |-> NoHeaders, body |-> body]

\* A MockResponse::new whose status is 404.
MockResponseNewNotFound(body) ==
    [code |-> 404, headers |-> NoHeaders, body |-> body, error |-> NoError]

\* MockResponse::new(body): code 200, no headers, no error.
MockResponseNew(body) ==
    [code |-> DefaultCode, headers |-> NoHeaders, body |-> body, error |-> NoError]

\* impl From<Bytes> for MockBody
MockBodyFrom(value) == BodyFull(value)

\* MockResponse::grpc_code
GrpcCode(response) == FromHttp(response.code)

\* Mock::unary
Unary(request, response) ==
    [request |-> MockRequestNew(BodyFull(ToBytes(request))),
     response |-> MockResponseNew(BodyFull(ToBytes(response)))]

\* Mock::client_streaming
ClientStreaming(request, response) ==
    [request |-> MockRequestNew(
                    BodyStream([i \in 1..Len(request) |-> ToBytes(request[i])])),
     response |-> MockResponseNew(BodyFull(ToBytes(response)))]

\* Mock::server_streaming
ServerStreaming(request, response) ==
    [request |-> MockRequestNew(BodyFull(ToBytes(request))),
     response |-> MockResponseNew(
                    BodyStream([i \in 1..Len(response) |-> ToBytes(response[i])]))]

\* Mock::bidi_streaming
BidiStreaming(request, response) ==
    [request |-> MockRequestNew(
                    BodyStream([i \in 1..Len(request) |-> ToBytes(request[i])])),
     response |-> MockResponseNew(
                    BodyStream([i \in 1..Len(response) |-> ToBytes(response[i])]))]

\* Mock::with_code
WithCode(mock, code) == [mock EXCEPT !.response.code = code]

\* Mock::with_error
WithError(mock, text) == [mock EXCEPT !.response.error = SomeError(text)]

\* Mock::with_headers
WithHeaders(mock, headers) == [mock EXCEPT !.response.headers = headers]

(***************************************************************************)
(* mock.rs: MockSet                                                         *)
(***************************************************************************)

\* The key of a GrpcMethod in the HashMap (derive Hash, Eq on both fields).
Key(m) == [service |-> m.service, name |-> m.name]

\* MockSet::new
MockSetNew == << >>

\* MockSet::insert
Insert(set, m, mock) ==
    IF Key(m) \in DOMAIN set
    THEN [set EXCEPT ![Key(m)] = Append(@, mock)]
    ELSE (Key(m) :> <<mock>>) @@ set

\* MockSet::insert_from_file, once MockFile::read has given the method and
\* the mocks of the file: the list is appended to the method's list, or
\* becomes it.
InsertFromFile(set, m, list) ==
    IF Key(m) \in DOMAIN set
    THEN [set EXCEPT ![Key(m)] = @ \o list]
    ELSE (Key(m) :> list) @@ set

\* HashMap::insert: the value of a key already present is replaced.
HashMapInsert(map, k, v) ==
    IF k \in DOMAIN map THEN [map EXCEPT ![k] = v] ELSE (k :> v) @@ map

\* HashMap's FromIterator (collect): the pairs are inserted one after the
\* other.
RECURSIVE HashMapExtend(_, _)
HashMapExtend(map, pairs) ==
    IF pairs = <<>> THEN map
    ELSE HashMapExtend(HashMapInsert(map, Key(Head(pairs)[1]), Head(pairs)[2]), Tail(pairs))

\* impl FromIterator<(GrpcMethod, Vec<Mock>)> for MockSet
FromIter(pairs) == HashMapExtend(<< >>, pairs)

\* A search that keeps the last match instead of the first.
LastMatch(list, body) ==
    IF \E i \in 1..Len(list) : BodyEq(list[i].request.body, body)
    THEN CHOOSE i \in 1..Len(list) :
            /\ BodyEq(list[i].request.body, body)
            /\ \A j \in (i + 1)..Len(list) : ~BodyEq(list[j].request.body, body)
    ELSE 0

\* A search that also wants the mock's request to declare no headers.
FirstMatchWithoutHeaders(list, body) ==
    LET hit(i) == /\ BodyEq(list[i].request.body, body)
                  /\ list[i].request.headers = NoHeaders
    IN  IF \E i \in 1..Len(list) : hit(i)
        THEN CHOOSE i \in 1..Len(list) : hit(i) /\ \A j \in 1..(i - 1) : ~hit(j)
        ELSE 0

\* Iterator::find over the list: the position of the first mock whose request
\* body equals the bytes, 0 when there is none.
FirstMatch(list, body) ==
    IF \E i \in 1..Len(list) : BodyEq(list[i].request.body, body)
    THEN CHOOSE i \in 1..Len(list) :
            /\ BodyEq(list[i].request.body, body)
            /\ \A j \in 1..(i - 1) : ~BodyEq(list[j].request.body, body)
    ELSE 0

\* MockSet::find: Option<&Mock>, the reference given as the position in the
\* method's list (0: None).
Find(set, m, body) ==
    IF Key(m) \in DOMAIN set THEN FirstMatch(set[Key(m)], body) ELSE 0

\* The number of mocks in a set.
RECURSIVE SumLens(_, _)
SumLens(set, keys) ==
    IF keys = {} THEN 0
    ELSE LET k == CHOOSE x \in keys : TRUE
         IN  Len(set[k]) + SumLens(set, keys \ {k})

Size(set) == SumLens(set, DOMAIN set)

(***************************************************************************)
(* The inputs of the registry and the server                                *)
(***************************************************************************)

\* The service the generated server is declared for (generate_server!'s
\* $name, "example.Hello" in the tests).
ServiceName == <<"p", ".", "S">>

\* The addresses callers register mocks for: two methods of the declared
\* service and one of another service.
Methods ==
    {New(ServiceName, <<"M">>), New(ServiceName, <<"N">>), New(<<"T">>, <<"M">>)}

\* Protobuf encodings of messages; MsgAB is MsgA followed by MsgB.
MsgA == <<1>>
MsgB == <<2>>
MsgAB == MsgA \o MsgB
MsgX == <<8>>
MsgY == <<9>>

TokenHeaders == {<<"x-token", "1">>}

\* The mocks callers insert, built as the tests and the constructors build
\* them:
\*   a unary mock for MsgA;
\*   a second mock with the same request, answering 400 with an error text;
\*   a client-streaming mock for MsgA then MsgB;
\*   the same two frames as one Full body (with request headers), answering
\*     404 with an error text;
\*   a mock with no request body, answering 404 with a stream and no text;
\*   a second mock with no request body (with request headers), answering
\*     with the defaults;
\*   a unary mock for MsgAB whose error text is the empty string.
MockInputs ==
    { Unary(MsgA, MsgX),
      WithError(WithCode(Unary(MsgA, MsgY), 400), "text cannot be empty"),
      ClientStreaming(<<MsgA, MsgB>>, MsgX),
      [request |-> [headers |-> TokenHeaders,
                    body |-> BodyFull(ToBytes(MsgA) \o ToBytes(MsgB))],
       response |-> [MockResponseNew(BodyEmpty) EXCEPT
                        !.code = 404, !.error = SomeError("model not found")]],
      [request |-> MockRequestNew(BodyEmpty),
       response |-> [MockResponseNew(BodyStream(<<ToBytes(MsgX), ToBytes(MsgY)>>))
                        EXCEPT !.code = 404]],
      [request |-> [headers |-> TokenHeaders, body |-> BodyEmpty],
       response |-> MockResponseNew(BodyEmpty)],
      WithError(Unary(MsgAB, MsgX), "") }

\* What a gRPC client puts in a request body: the frames of the messages it
\* sends, one after the other.
ClientFrames(messages) == [i \in 1..Len(messages) |-> ToBytes(messages[i])]

\* The message sequences clients send: nothing, MsgA, MsgA then MsgB in two
\* frames, and MsgAB in one frame.
ClientMessages == { <<>>, <<MsgA>>, <<MsgA, MsgB>>, <<MsgAB>> }

\* Request paths: the two methods of the declared service, and a path that
\* names no method.
RequestPaths ==
    { Path(New(ServiceName, <<"M">>)), Path(New(ServiceName, <<"N">>)),
      <<"/">> \o ServiceName }

RequestHeaders == {NoHeaders, {<<"x-token", "2">>}}

(***************************************************************************)
(* mock.rs: mock files                                                      *)
(***************************************************************************)

\* The `body` key of a request or a response in a mock file: no key, null,
\* one JSON text, or a list of JSON texts.
DocAbsent == [kind |-> "absent", texts |-> <<>>]
DocNull == [kind |-> "null", texts |-> <<>>]
DocValue(text) == [kind |-> "value", texts |-> <<text>>]
DocList(texts) == [kind |-> "list", texts |-> texts]

\* enum JsonMockBody { Empty, Full(String), Stream(Vec<String>) }
JsonEmpty == [tag |-> "Empty", values |-> <<>>]
JsonFull(value) == [tag |-> "Full", values |-> <<value>>]
JsonStream(values) == [tag |-> "Stream", values |-> values]

\* serde on a `body` field holding the untagged JsonMockBody: null is the
\* unit variant, a string Full, a sequence Stream.  A missing key is
\* Default::default() for a field with #[serde(default)] (the response's)
\* and the error "missing field" for one without (the request's).
DeserializeBody(doc_body, has_default) ==
    CASE doc_body.kind = "absent" ->
            [ok |-> has_default, json |-> JsonEmpty]
      [] doc_body.kind = "null" -> [ok |-> TRUE, json |-> JsonEmpty]
      [] doc_body.kind = "value" -> [ok |-> TRUE, json |-> JsonFull(doc_body.texts[1])]
      [] doc_body.kind = "list" -> [ok |-> TRUE, json |-> JsonStream(doc_body.texts)]

\* The JSON texts that are a message of the method's type, with the
\* protobuf encoding of the message; any other text is not one.
JsonMessages ==
    [text \in {"{a}", "{b}", "{x}", "{y}"} |->
        CASE text = "{a}" -> MsgA
          [] text = "{b}" -> MsgB
          [] text = "{x}" -> MsgX
          [] text = "{y}" -> MsgY]

\* serde_json::from_str::<T>(value)
JsonFromStr(text) ==
    IF text \in DOMAIN JsonMessages
    THEN [ok |-> TRUE, message |-> JsonMessages[text]]
    ELSE [ok |-> FALSE, message |-> <<>>]

\* MockBody::from_json(json_body, flatten)
FromJson(json_body, flatten) ==
    CASE json_body.tag = "Empty" -> [ok |-> TRUE, body |-> BodyEmpty]
      [] json_body.tag = "Full" ->
            IF JsonFromStr(json_body.values[1]).ok
            THEN [ok |-> TRUE,
                  body |-> BodyFull(ToBytes(JsonFromStr(json_body.values[1]).message))]
            ELSE [ok |-> FALSE, body |-> BodyEmpty]
      [] json_body.tag = "Stream" ->
            IF \A i \in 1..Len(json_body.values) : JsonFromStr(json_body.values[i]).ok
            THEN LET messages == [i \in 1..Len(json_body.values) |->
                                    ToBytes(JsonFromStr(json_body.values[i]).message)]
                 IN  [ok |-> TRUE,
                      body |-> IF flatten THEN BodyFull(Concat(messages))
                               ELSE BodyStream(messages)]
            ELSE [ok |-> FALSE, body |-> BodyEmpty]

\* One mock of a mock file as serde leaves it (headers and code default
\* when their keys are missing, the bodies still JSON), or the error of the
\* document.
DeserializeMock(fixture) ==
    LET request == DeserializeBody(fixture.request.body, FALSE)
        response == DeserializeBody(fixture.response.body, TRUE)
    IN  [ok |-> request.ok /\ response.ok,
         request |-> [headers |-> fixture.request.headers, json_body |-> request.json],
         response |-> [code |-> IF fixture.response.code = {} THEN DefaultCode
                                ELSE CHOOSE c \in fixture.response.code : TRUE,
                       headers |-> fixture.response.headers,
                       json_body |-> response.json,
                       error |-> fixture.response.error]]

\* Mock::encode_body: the request body with flatten, the response body
\* without.  (json_body, which nothing else reads, is not kept in the mock.)
EncodeBody(mock) ==
    LET request == FromJson(mock.request.json_body, TRUE)
        response == FromJson(mock.response.json_body, FALSE)
    IN  [ok |-> request.ok /\ response.ok,
         mock |-> [request |-> [headers |-> mock.request.headers, body |-> request.body],
                   response |-> [code |-> mock.response.code,
                                 headers |-> mock.response.headers,
                                 body |-> response.body,
                                 error |-> mock.response.error]]]

ReadErr(kind) == [ok |-> FALSE, err |-> kind, method |-> NoResult, mocks |-> <<>>]
ReadOk(m, list) == [ok |-> TRUE, err |-> "", method |-> m, mocks |-> list]

\* A read that gives the mocks before the first one that fails to encode.
MockFileReadPartial(doc) ==
    LET encoded == [i \in 1..Len(doc.mocks) |-> EncodeBody(DeserializeMock(doc.mocks[i]))]
        good == {n \in 0..Len(doc.mocks) : \A i \in 1..n : encoded[i].ok}
        last == CHOOSE n \in good : \A k \in good : k <= n
    IN  IF ~doc.readable THEN ReadErr("io error")
        ELSE IF ~doc.wellformed \/ \E i \in 1..Len(doc.mocks) :
                                        ~DeserializeMock(doc.mocks[i]).ok
        THEN ReadErr("yaml error")
        ELSE IF ~New(doc.service, doc.method).ok THEN ReadErr("invalid")
        ELSE ReadOk(New(doc.service, doc.method), [i \in 1..last |-> encoded[i].mock])

\* MockFile::read: File::open, serde_yml::from_reader, GrpcMethod::new, then
\* encode_body on each mock in turn; the first error is returned (`?`).
MockFileRead(doc) ==
    LET encoded == [i \in 1..Len(doc.mocks) |-> EncodeBody(DeserializeMock(doc.mocks[i]))]
    IN  IF ~doc.readable THEN ReadErr("io error")
        ELSE IF ~doc.wellformed \/ \E i \in 1..Len(doc.mocks) :
                                        ~DeserializeMock(doc.mocks[i]).ok
        THEN ReadErr("yaml error")
        ELSE IF ~New(doc.service, doc.method).ok THEN ReadErr("invalid")
        ELSE IF \E i \in 1..Len(doc.mocks) : ~encoded[i].ok THEN ReadErr("json error")
        ELSE ReadOk(New(doc.service, doc.method),
                    [i \in 1..Len(doc.mocks) |-> encoded[i].mock])

(***************************************************************************)
(* Callers of MockSet (no server)                                           *)
(***************************************************************************)

\* No find call is outstanding.
NotCalled == [called |-> FALSE, method |-> Key(NoResult), body |-> <<>>, index |-> 0]

\* The history after the mocks of `list` were handed in for method m.
Registered(history, m, list) ==
    IF Key(m) \in DOMAIN history
    THEN [history EXCEPT ![Key(m)] = @ \o list]
    ELSE (Key(m) :> list) @@ history

\* mocks.insert(method, mock).  The reference a find returned cannot outlive
\* a mutation of the set.
DoInsert(m, mock) ==
    /\ server.status = "none"
    /\ Size(mocks) < MaxMocks
    /\ mocks' = Insert(mocks, m, mock)
    /\ registered' = Registered(registered, m, <<mock>>)
    /\ found' = NotCalled
    /\ UNCHANGED <<server, reqs, life_vars, not_server_vars>>

\* mocks.insert_from_file(path), the file holding method m and the list.
DoInsertFromFile(m, list) ==
    /\ server.status = "none"
    /\ Size(mocks) + Len(list) <= MaxMocks
    /\ mocks' = InsertFromFile(mocks, m, list)
    /\ registered' = Registered(registered, m, list)
    /\ found' = NotCalled
    /\ UNCHANGED <<server, reqs, life_vars, not_server_vars>>

\* The history after the lists of a sequence of (method, list) pairs were
\* handed in, one pair after the other.
RECURSIVE RegisteredPairs(_, _)
RegisteredPairs(history, pairs) ==
    IF pairs = <<>> THEN history
    ELSE RegisteredPairs(Registered(history, Head(pairs)[1], Head(pairs)[2]), Tail(pairs))

\* let mocks: MockSet = pairs.into_iter().collect()
DoFromIter(pairs) ==
    /\ server.status = "none"
    /\ mocks = MockSetNew
    /\ mocks' = FromIter(pairs)
    /\ registered' = RegisteredPairs(registered, pairs)
    /\ found' = NotCalled
    /\ UNCHANGED <<server, reqs, life_vars, not_server_vars>>

\* No insert_from_file call has been made.
NoDoc ==
    [readable |-> FALSE, wellformed |-> FALSE, service |-> <<>>, method |-> <<>>,
     mocks |-> <<>>]

NotLoaded == [called |-> FALSE, doc |-> NoDoc, result |-> ReadErr("none")]

\* mocks.insert_from_file(path) on the file `doc`: MockFile::read, whose
\* error is returned before the map is touched, then the append.
DoLoadFile(doc) ==
    /\ server.status = "none"
    /\ LET r == MockFileRead(doc)
       IN  /\ Size(mocks) + Len(r.mocks) <= MaxMocks
           /\ loaded' = [called |-> TRUE, doc |-> doc, result |-> r]
           /\ mocks' = IF r.ok THEN InsertFromFile(mocks, r.method, r.mocks) ELSE mocks
           /\ registered' = IF r.ok THEN Registered(registered, r.method, r.mocks)
                            ELSE registered
    /\ found' = NotCalled
    /\ UNCHANGED <<server, reqs, life_vars, not_load_vars>>

\* mocks.find(&method, body)
DoFind(m, body) ==
    /\ server.status = "none"
    /\ found' = [called |-> TRUE, method |-> Key(m), body |-> body,
                 index |-> Find(mocks, m, body)]
    /\ UNCHANGED <<mocks, registered, server, reqs, life_vars, not_server_vars>>

(***************************************************************************)
(* server.rs: MockServer                                                    *)
(***************************************************************************)

\* Ports another socket is bound to: TcpListener::bind fails on them.
BusyPorts == {40001}

\* port_is_available: TcpListener::bind(("0.0.0.0", port)).is_ok()
PortIsAvailable(port) == port \notin BusyPorts

\* What rng.gen_range(40000..60000) gives, draw after draw, up to the first
\* port that is available: at once, or after a busy one.
PortDraws == { <<40000>>, <<40001, 59999>> }

\* A search that takes the first port drawn without probing it.
FindFirstDrawn(draws) == [port |-> draws[1], probed |-> {}]

\* find_available_port: the loop draws a port and probes it until a probe
\* succeeds; it returns Some(port) and nothing else.  `probed` is every port
\* the loop has bound, the last with success.
FindAvailablePort(draws) ==
    LET last == CHOOSE i \in 1..Len(draws) :
                    /\ PortIsAvailable(draws[i])
                    /\ \A j \in 1..(i - 1) : ~PortIsAvailable(draws[j])
    IN  [port |-> draws[last], probed |-> {draws[j] : j \in 1..last}]


NoServer ==
    [status |-> "none", name |-> <<>>, ip |-> "", port |-> 0, mocks |-> MockSetNew,
     inner |-> FALSE, err |-> <<>>]

\* format!("all mocks must be for {name} service"), the name between
\* backquotes (left out here).
ServiceMismatchMsg(name) == <<"all mocks must be for ", name, " service">>

\* Display of Error::Invalid: #[error("invalid: {0}")]
ErrorToString(msg) == <<"invalid: ">> \o msg

\* tonic::Code as i32
CodeAsInt(code) ==
    CASE code = "Ok" -> 0
      [] code = "Unknown" -> 2
      [] code = "NotFound" -> 5
      [] code = "PermissionDenied" -> 7
      [] code = "Unimplemented" -> 12
      [] code = "Internal" -> 13
      [] code = "Unavailable" -> 14
      [] code = "Unauthenticated" -> 16

\* grpc_response that adds grpc-message for every code but Ok, text or not.
GrpcResponseMessageByCode(code, body, error) ==
    [status |-> 200,
     headers |-> {<<"content-type", "application/grpc">>, <<"grpc-status", CodeAsInt(code)>>}
                    \cup (IF code # "Ok" THEN {<<"grpc-message", error.text>>} ELSE {}),
     body |-> body]

\* grpc_response: status 200, content-type, grpc-status, and grpc-message
\* when an error text is given.
GrpcResponse(code, body, error) ==
    [status |-> 200,
     headers |-> {<<"content-type", "application/grpc">>, <<"grpc-status", CodeAsInt(code)>>}
                    \cup (IF error.some THEN {<<"grpc-message", error.text>>} ELSE {}),
     body |-> body]

NoResponse == [status |-> 0, headers |-> {}, body |-> <<>>]

\* The requests a server may be handling at once.
AllReqIds == {1, 2}

\* A request slot: the request (its path, headers, the data chunks its body
\* stream yields and whether the stream then ends with an error) and what the
\* handler's future holds (the parsed method, the chunks read so far, the
\* bytes collected, the mock found and the response).
IdleReq ==
    [pc |-> "idle", path |-> <<>>, headers |-> NoHeaders, chunks |-> <<>>,
     fails |-> FALSE, method |-> NoResult, read |-> 0, body |-> <<>>,
     matched |-> 0, response |-> NoResponse]

\* A constructor that looks for a port before it looks at the mocks.
NewServerProbeFirst ==
    /\ server.status = "none"
    /\ \E draws \in PortDraws :
        /\ probed' = probed \cup FindAvailablePort(draws).probed
        /\ IF \E k \in DOMAIN mocks : k.service # ServiceName
           THEN server' = [NoServer EXCEPT !.status = "err",
                                           !.err = ServiceMismatchMsg(ServiceName)]
           ELSE server' = [status |-> "ok", name |-> ServiceName, ip |-> "0.0.0.0",
                           port |-> FindAvailablePort(draws).port,
                           mocks |-> mocks, inner |-> FALSE, err |-> <<>>]
    /\ found' = NotCalled
    /\ UNCHANGED <<mocks, registered, reqs, task, life, not_server_vars>>

\* A constructor that does not look at the services of the mocks.
NewServerUnchecked ==
    /\ server.status = "none"
    /\ \E draws \in PortDraws :
        /\ probed' = probed \cup FindAvailablePort(draws).probed
        /\ server' = [status |-> "ok", name |-> ServiceName, ip |-> "0.0.0.0",
                       port |-> FindAvailablePort(draws).port,
                       mocks |-> mocks, inner |-> FALSE, err |-> <<>>]
    /\ found' = NotCalled
    /\ UNCHANGED <<mocks, registered, reqs, task, life, not_server_vars>>

\* MockServer::new(name, mocks): the service check, then find_available_port
\* (each probe binds a listener and drops it), then the instance at
\* 0.0.0.0:port with an empty `inner`.
NewServer ==
    /\ server.status = "none"
    /\ \/ /\ \E k \in DOMAIN mocks : k.service # ServiceName
          /\ server' = [NoServer EXCEPT !.status = "err",
                                        !.err = ServiceMismatchMsg(ServiceName)]
          /\ UNCHANGED probed
       \/ /\ \A k \in DOMAIN mocks : k.service = ServiceName
          /\ \E draws \in PortDraws :
                /\ probed' = probed \cup FindAvailablePort(draws).probed
                /\ server' = [status |-> "ok", name |-> ServiceName, ip |-> "0.0.0.0",
                              port |-> FindAvailablePort(draws).port,
                              mocks |-> mocks, inner |-> FALSE, err |-> <<>>]
    /\ found' = NotCalled
    /\ UNCHANGED <<mocks, registered, reqs, task, life, not_server_vars>>

\* A request reaches MockServer::handle (Service::call): the future is
\* created with the request and a clone of the shared state.
Receive(i, p, headers, messages, fails) ==
    /\ server.status = "ok"
    /\ reqs[i].pc \in {"idle", "done", "panicked"}
    /\ reqs' = [reqs EXCEPT ![i] =
                    [IdleReq EXCEPT !.pc = "AddressResolution", !.path = p,
                                    !.headers = headers,
                                    !.chunks = ClientFrames(messages),
                                    !.fails = fails]]
    /\ UNCHANGED <<mocks, registered, found, server, life_vars, not_server_vars>>

\* req.uri().path().parse().unwrap()
ResolveAddress(i) ==
    /\ reqs[i].pc = "AddressResolution"
    /\ LET m == FromStr(reqs[i].path)
       IN  reqs' = [reqs EXCEPT ![i].method = m,
                                ![i].pc = IF m.ok THEN "BodyCollection" ELSE "panicked"]
    /\ UNCHANGED <<mocks, registered, found, server, life_vars, not_server_vars>>

\* A collection into one buffer shared by the requests being collected.
CollectBodyShared(i) ==
    /\ reqs[i].pc = "BodyCollection"
    /\ reqs' = IF reqs[i].read < Len(reqs[i].chunks)
               THEN [j \in AllReqIds |->
                        IF j = i
                        THEN [reqs[j] EXCEPT !.body = @ \o reqs[i].chunks[reqs[i].read + 1],
                                             !.read = @ + 1]
                        ELSE IF reqs[j].pc = "BodyCollection"
                        THEN [reqs[j] EXCEPT !.body = @ \o reqs[i].chunks[reqs[i].read + 1]]
                        ELSE reqs[j]]
               ELSE [reqs EXCEPT ![i].pc = IF reqs[i].fails THEN "panicked" ELSE "Lookup"]
    /\ UNCHANGED <<mocks, registered, found, server, life_vars, not_server_vars>>

\* req.into_body().collect().await.unwrap().to_bytes(): one poll of the body
\* stream.  A data chunk is appended to what was collected; the end of the
\* stream completes the collection; an error of the stream makes collect()
\* return Err, on which unwrap() panics.
CollectBody(i) ==
    /\ reqs[i].pc = "BodyCollection"
    /\ reqs' = IF reqs[i].read < Len(reqs[i].chunks)
               THEN [reqs EXCEPT ![i].body = @ \o reqs[i].chunks[reqs[i].read + 1],
                                 ![i].read = @ + 1]
               ELSE [reqs EXCEPT ![i].pc = IF reqs[i].fails THEN "panicked" ELSE "Lookup"]
    /\ UNCHANGED <<mocks, registered, found, server, life_vars, not_server_vars>>

\* A handler whose NotFound answer carries a grpc-message.
SynthesizeNotFoundWithMessage(set, m, body) ==
    LET idx == Find(set, m, body)
    IN  IF idx # 0
        THEN LET mock == set[Key(m)][idx]
             IN  GrpcResponse(GrpcCode(mock.response), ToBoxed(mock.response.body),
                              mock.response.error)
        ELSE GrpcResponse("NotFound", <<>>, SomeError("not found"))

\* A handler that copies the headers of the mock's response into its answer.
SynthesizeWithMockHeaders(set, m, body) ==
    LET idx == Find(set, m, body)
    IN  IF idx # 0
        THEN LET mock == set[Key(m)][idx]
                 resp == GrpcResponse(GrpcCode(mock.response),
                                      ToBoxed(mock.response.body), mock.response.error)
             IN  [resp EXCEPT !.headers = @ \cup mock.response.headers]
        ELSE GrpcResponse("NotFound", <<>>, NoError)

\* The response for the bytes collected: the matched mock's, or NotFound.
Synthesize(set, m, body) ==
    LET idx == Find(set, m, body)
    IN  IF idx # 0
        THEN LET mock == set[Key(m)][idx]
             IN  GrpcResponse(GrpcCode(mock.response), ToBoxed(mock.response.body),
                              mock.response.error)
        ELSE GrpcResponse("NotFound", <<>>, NoError)

\* The sequence without its element at position idx.
RemoveAt(list, idx) == SubSeq(list, 1, idx - 1) \o SubSeq(list, idx + 1, Len(list))

\* A handler that takes the matched mock out of the registry.
RespondConsuming(i) ==
    /\ reqs[i].pc = "Lookup"
    /\ LET idx == Find(server.mocks, reqs[i].method, reqs[i].body)
       IN  /\ reqs' = [reqs EXCEPT
                        ![i].matched = idx,
                        ![i].response =
                            Synthesize(server.mocks, reqs[i].method, reqs[i].body),
                        ![i].pc = "done"]
           /\ server' = IF idx = 0 THEN server
                        ELSE [server EXCEPT !.mocks[Key(reqs[i].method)] = RemoveAt(@, idx)]
    /\ UNCHANGED <<mocks, registered, found, life_vars, not_server_vars>>

\* state.mocks.find(&method, &body), then grpc_response(...)
Respond(i) ==
    /\ reqs[i].pc = "Lookup"
    /\ reqs' = [reqs EXCEPT
                    ![i].matched = Find(server.mocks, reqs[i].method, reqs[i].body),
                    ![i].response = Synthesize(server.mocks, reqs[i].method, reqs[i].body),
                    ![i].pc = "done"]
    /\ UNCHANGED <<mocks, registered, found, server, life_vars, not_server_vars>>

\* start() has not been called: no task, no JoinHandle, no instance held.
NoStart ==
    [pc |-> "idle", attempts |-> 0, last |-> "none", broke |-> FALSE,
     handle |-> "none", instances |-> 0]

ServerIdle ==
    /\ mocks = MockSetNew
    /\ registered = << >>
    /\ found = NotCalled
    /\ server = NoServer
    /\ reqs = [i \in AllReqIds |-> IdleReq]
    /\ probed = {}
    /\ task = "none"
    /\ life = NoStart
    /\ loaded = NotLoaded

(***************************************************************************)
(* codegen.rs: start and serve of the generated server, server.rs: _start   *)
(***************************************************************************)

\* CONNECT_RETRY_MAX_ATTEMPTS
ConnectRetryMaxAttempts == 10

\* start(), after MockServer::new returned Ok: serve() spawns the task that
\* runs Server::builder().add_service(self.clone()).serve(self.addr()) and
\* enters _start with the JoinHandle in a local.  When new returned Err,
\* start returns it (the `?`) and nothing more happens.
Spawn ==
    /\ server.status = "ok"
    /\ life.pc = "idle"
    /\ task' = "spawned"
    /\ life' = [life EXCEPT !.pc = "barrier", !.handle = "local"]
    /\ UNCHANGED <<probed, server_vars, not_server_vars>>

\* The background task binds the address: it listens from then on, or serve
\* returns the bind error and the task ends (the port was free when probed,
\* not necessarily now).
TaskBind(ok) ==
    /\ task = "spawned"
    /\ task' = IF ok THEN "listening" ELSE "failed"
    /\ UNCHANGED <<probed, life, server_vars, not_server_vars>>

\* What timeout(CONNECT_TIMEOUT_DURATION, TcpStream::connect(addr)).await can
\* give: Ok(Ok(stream)) when a listener accepts, Ok(Err(refused)) when no
\* listener is bound to the port, Err(Elapsed) when the timer fires first.
\* After a failed bind the port is another process's, or nobody's.
ConnectOutcomes ==
    CASE task = "listening" -> {"connected", "timeout"}
      [] task = "failed" -> {"connected", "refused", "timeout"}
      [] OTHER -> {"refused", "timeout"}

\* One round of the loop of _start: the connect under the timeout, then
\* `break` when the timeout's Result is_ok(), the sleep otherwise.
Connect(outcome) ==
    /\ life.pc = "barrier"
    /\ life.attempts < ConnectRetryMaxAttempts
    /\ outcome \in ConnectOutcomes
    /\ life' = [life EXCEPT !.attempts = @ + 1,
                            !.last = outcome,
                            !.broke = (outcome # "timeout"),
                            !.pc = IF outcome # "timeout" THEN "store" ELSE "sleep"]
    /\ UNCHANGED <<probed, task, server_vars, not_server_vars>>

\* tokio::time::sleep(CONNECT_RETRY_SLEEP_DURATION).await
Sleep ==
    /\ life.pc = "sleep"
    /\ life' = [life EXCEPT !.pc = "barrier"]
    /\ UNCHANGED <<probed, task, server_vars, not_server_vars>>

\* An end of _start that keeps the handle only when the loop broke.
StoreHandleIfReady ==
    /\ \/ life.pc = "store"
       \/ life.pc = "barrier" /\ life.attempts = ConnectRetryMaxAttempts
    /\ server' = [server EXCEPT !.inner = life.broke]
    /\ life' = [life EXCEPT !.pc = "returned",
                            !.handle = IF life.broke THEN "stored" ELSE "dropped",
                            !.instances = 1]
    /\ UNCHANGED <<mocks, registered, found, reqs, probed, task, not_server_vars>>

\* The loop is over (break, or the range is exhausted):
\* self.inner = Arc::new(Some(Inner { handle })), then serve returns
\* self.to_owned() and start returns it; the temporary is dropped, so the
\* caller holds the one instance.
StoreHandle ==
    /\ \/ life.pc = "store"
       \/ life.pc = "barrier" /\ life.attempts = ConnectRetryMaxAttempts
    /\ server' = [server EXCEPT !.inner = TRUE]
    /\ life' = [life EXCEPT !.pc = "returned", !.handle = "stored", !.instances = 1]
    /\ UNCHANGED <<mocks, registered, found, reqs, probed, task, not_server_vars>>

\* #[derive(Clone)]: the clone shares `state` and `inner` (two Arcs).
CloneInstance ==
    /\ life.pc = "returned"
    /\ life.instances \in 1..(MaxClones - 1)
    /\ life' = [life EXCEPT !.instances = @ + 1]
    /\ UNCHANGED <<probed, task, server_vars, not_server_vars>>

\* The caller drops an instance.  With the last one the Arc of `inner` goes,
\* and with it Inner and the JoinHandle: Inner has no Drop of its own, and a
\* dropped JoinHandle detaches its task, which keeps running (it holds the
\* clone of the server it was given).
DropInstance ==
    /\ life.pc = "returned"
    /\ life.instances > 0
    /\ life' = [life EXCEPT !.instances = @ - 1,
                            !.handle = IF life.instances = 1 THEN "dropped" ELSE @]
    /\ UNCHANGED <<probed, task, server_vars, not_server_vars>>

\* The listening task accepts a connection and hands its request to
\* Service::call, that is to MockServer::handle.
Accept(i, p, headers, messages, fails) ==
    /\ task = "listening"
    /\ Receive(i, p, headers, messages, fails)

(***************************************************************************)
(* Specifications                                                           *)
(***************************************************************************)

InitMethod == AddrInit /\ FrameIdle /\ StatusIdle /\ ServerIdle

SpecMethod == InitMethod /\ [][MethodNext]_vars

InitFrame == FrameInit /\ AddrIdle /\ StatusIdle /\ ServerIdle

FrameNext == Encode

SpecFrame == InitFrame /\ [][FrameNext]_vars

InitStatus == StatusInit /\ AddrIdle /\ FrameIdle /\ ServerIdle

StatusNext == MapStatus

SpecStatus == InitStatus /\ [][StatusNext]_vars

\* The lists of mocks a file or an iterator item holds.
ListMocks ==
    { Unary(MsgA, MsgX),
      WithError(WithCode(Unary(MsgA, MsgY), 400), "text cannot be empty"),
      ClientStreaming(<<MsgA, MsgB>>, MsgX) }

MockLists == UNION {[1..n -> ListMocks] : n \in 0..MaxMocks}

\* The sequences an iterator yields: one pair, or two (of one method or of
\* two), of at most MaxMocks mocks in all.
IterItems == {<<m, list>> : m \in Methods, list \in MockLists}

IterInputs ==
    {<<a>> : a \in IterItems}
        \cup {ab \in IterItems \X IterItems : Len(ab[1][2]) + Len(ab[2][2]) <= MaxMocks}

\* The ways a caller builds a set.
RegistrationNext ==
    \/ \E m \in Methods, mock \in ListMocks : DoInsert(m, mock)
    \/ \E m \in Methods, list \in MockLists : DoInsertFromFile(m, list)
    \/ \E pairs \in IterInputs : DoFromIter(pairs)

InitRegistration == ServerIdle /\ AddrIdle /\ FrameIdle /\ StatusIdle

SpecRegistration == InitRegistration /\ [][RegistrationNext]_vars

RegistryNext ==
    \/ \E m \in Methods, mock \in MockInputs : DoInsert(m, mock)
    \/ \E m \in Methods, messages \in ClientMessages :
            DoFind(m, Concat(ClientFrames(messages)))

InitRegistry == ServerIdle /\ AddrIdle /\ FrameIdle /\ StatusIdle

SpecRegistry == InitRegistry /\ [][RegistryNext]_vars

\* The requests this specification handles (one at a time).
ReqIds == {1}

Next ==
    \/ \E m \in Methods, mock \in MockInputs : DoInsert(m, mock)
    \/ NewServer
    \/ \E i \in ReqIds, p \in RequestPaths, h \in RequestHeaders,
           messages \in ClientMessages, fails \in BOOLEAN :
            Receive(i, p, h, messages, fails)
    \/ \E i \in ReqIds : ResolveAddress(i)
    \/ \E i \in ReqIds : CollectBody(i)
    \/ \E i \in ReqIds : Respond(i)

Init == ServerIdle /\ AddrIdle /\ FrameIdle /\ StatusIdle

Spec == Init /\ [][Next]_vars

\* Two requests in flight on one instance, their steps interleaved in every
\* way: a one-frame and a two-frame request to one method, the body stream
\* of either ending well or with an error.
ConcurrentMethods == {New(ServiceName, <<"M">>)}
ConcurrentMocks == {Unary(MsgA, MsgX), ClientStreaming(<<MsgA, MsgB>>, MsgY)}
ConcurrentPaths == {Path(New(ServiceName, <<"M">>))}
ConcurrentMessages == { <<MsgA>>, <<MsgA, MsgB>> }

ConcurrentNext ==
    \/ \E m \in ConcurrentMethods, mock \in ConcurrentMocks : DoInsert(m, mock)
    \/ NewServer
    \/ \E i \in AllReqIds, p \in ConcurrentPaths, messages \in ConcurrentMessages,
           fails \in BOOLEAN :
            Receive(i, p, NoHeaders, messages, fails)
    \/ \E i \in AllReqIds : ResolveAddress(i)
    \/ \E i \in AllReqIds : CollectBody(i)
    \/ \E i \in AllReqIds : Respond(i)

InitConcurrent == ServerIdle /\ AddrIdle /\ FrameIdle /\ StatusIdle

SpecConcurrent == InitConcurrent /\ [][ConcurrentNext]_vars

\* Mock files: their fixtures, and the files themselves (a file of two good
\* mocks, single values and lists; a file of one mock with a null request
\* body and no response body; an unreadable file; a file that is not a mock
\* file; a method name in lowercase; a good mock followed by one whose
\* response is not a message; a mock with no request body; an empty method
\* name).
DocFixture(request, response) ==
    [request |-> [headers |-> NoHeaders, body |-> request],
     response |-> [code |-> {}, headers |-> NoHeaders, body |-> response,
                   error |-> NoError]]

ValueFixture == DocFixture(DocValue("{a}"), DocValue("{x}"))
ListFixture == DocFixture(DocList(<<"{a}", "{b}">>), DocList(<<"{x}", "{y}">>))
NullFixture ==
    [DocFixture(DocNull, DocAbsent) EXCEPT
        !.response.code = {404}, !.response.error = SomeError("model not found")]
BadValueFixture == DocFixture(DocValue("{b}"), DocValue("{bad"))
NoRequestBodyFixture == DocFixture(DocAbsent, DocValue("{x}"))

Doc(service, name, fixtures) ==
    [readable |-> TRUE, wellformed |-> TRUE, service |-> service, method |-> name,
     mocks |-> fixtures]

Documents ==
    { Doc(ServiceName, <<"M">>, <<ValueFixture, ListFixture>>),
      Doc(ServiceName, <<"M">>, <<NullFixture>>),
      [Doc(ServiceName, <<"M">>, <<ValueFixture>>) EXCEPT !.readable = FALSE],
      [Doc(ServiceName, <<"M">>, <<ValueFixture>>) EXCEPT !.wellformed = FALSE],
      Doc(ServiceName, <<"p">>, <<ValueFixture>>),
      Doc(ServiceName, <<"M">>, <<ValueFixture, BadValueFixture>>),
      Doc(ServiceName, <<"M">>, <<NoRequestBodyFixture>>),
      Doc(ServiceName, <<>>, <<ValueFixture>>) }

LoadPaths == {Path(New(ServiceName, <<"M">>))}
LoadMessages == { <<>>, <<MsgA>>, <<MsgA, MsgB>> }

\* A caller loads mock files, constructs the server and sends a request.
LoadNext ==
    \/ \E doc \in Documents : DoLoadFile(doc)
    \/ NewServer
    \/ \E i \in ReqIds, p \in LoadPaths, messages \in LoadMessages :
            Receive(i, p, NoHeaders, messages, FALSE)
    \/ \E i \in ReqIds : ResolveAddress(i)
    \/ \E i \in ReqIds : CollectBody(i)
    \/ \E i \in ReqIds : Respond(i)

InitLoad == ServerIdle /\ AddrIdle /\ FrameIdle /\ StatusIdle

SpecLoad == InitLoad /\ [][LoadNext]_vars

\* Mocks built in every way the interface offers: by the four constructors
\* (one message or a list on either side); by a constructor and then
\* with_code, with_error and with_headers; from a MockRequest and a
\* MockResponse whose body is the bytes of a message (MockBody::from); and
\* with a request that has headers and the default response.
FixtureMethods == {New(ServiceName, <<"M">>)}
FixtureMocks ==
    { Unary(MsgA, MsgX),
      ClientStreaming(<<MsgA, MsgB>>, MsgX),
      ServerStreaming(MsgA, <<MsgX, MsgY>>),
      BidiStreaming(<<MsgA, MsgB>>, <<MsgX, MsgY>>),
      WithHeaders(WithError(WithCode(Unary(MsgB, MsgY), 404), "model not found"),
                  TokenHeaders),
      [request |-> MockRequestNew(BodyEmpty),
       response |-> MockResponseNew(MockBodyFrom(MsgX))],
      [request |-> [headers |-> TokenHeaders, body |-> BodyFull(ToBytes(MsgAB))],
       response |-> MockResponseNew(BodyEmpty)] }
FixturePaths == {Path(New(ServiceName, <<"M">>))}
FixtureMessages == { <<>>, <<MsgA>>, <<MsgB>>, <<MsgA, MsgB>>, <<MsgAB>> }

\* A caller inserts mocks, constructs the server and sends a request.
FixturesNext ==
    \/ \E m \in FixtureMethods, mock \in FixtureMocks : DoInsert(m, mock)
    \/ NewServer
    \/ \E i \in ReqIds, p \in FixturePaths, headers \in RequestHeaders,
           messages \in FixtureMessages :
            Receive(i, p, headers, messages, FALSE)
    \/ \E i \in ReqIds : ResolveAddress(i)
    \/ \E i \in ReqIds : CollectBody(i)
    \/ \E i \in ReqIds : Respond(i)

InitFixtures == ServerIdle /\ AddrIdle /\ FrameIdle /\ StatusIdle

SpecFixtures == InitFixtures /\ [][FixturesNext]_vars

\* The life of one generated server: the caller builds the set (for the
\* declared service or another), calls start, sends requests to the
\* listening task (two may be in flight), clones and drops instances.
LifecycleMethods == {New(ServiceName, <<"M">>), New(<<"T">>, <<"M">>)}
LifecycleMocks == {Unary(MsgA, MsgX)}
LifecyclePaths == {Path(New(ServiceName, <<"M">>))}
LifecycleMessages == { <<MsgA>>, <<MsgB>> }

LifecycleNext ==
    \/ \E m \in LifecycleMethods, mock \in LifecycleMocks : DoInsert(m, mock)
    \/ NewServer
    \/ Spawn
    \/ \E ok \in BOOLEAN : TaskBind(ok)
    \/ \E outcome \in {"connected", "refused", "timeout"} : Connect(outcome)
    \/ Sleep
    \/ StoreHandle
    \/ CloneInstance
    \/ DropInstance
    \/ \E i \in AllReqIds, p \in LifecyclePaths, messages \in LifecycleMessages :
            Accept(i, p, NoHeaders, messages, FALSE)
    \/ \E i \in AllReqIds : ResolveAddress(i)
    \/ \E i \in AllReqIds : CollectBody(i)
    \/ \E i \in AllReqIds : Respond(i)

InitLifecycle == ServerIdle /\ AddrIdle /\ FrameIdle /\ StatusIdle

SpecLifecycle == InitLifecycle /\ [][LifecycleNext]_vars

\* Start alone, with one request at a time to the listening task.
StartNext ==
    \/ \E m \in LifecycleMethods, mock \in LifecycleMocks : DoInsert(m, mock)
    \/ NewServer
    \/ Spawn
    \/ \E ok \in BOOLEAN : TaskBind(ok)
    \/ \E outcome \in {"connected", "refused", "timeout"} : Connect(outcome)
    \/ Sleep
    \/ StoreHandle
    \/ CloneInstance
    \/ DropInstance
    \/ \E i \in ReqIds, p \in LifecyclePaths, messages \in LifecycleMessages :
            Accept(i, p, NoHeaders, messages, FALSE)
    \/ \E i \in ReqIds : ResolveAddress(i)
    \/ \E i \in ReqIds : CollectBody(i)
    \/ \E i \in ReqIds : Respond(i)

\* What the runtime keeps running: the future of start (its timers fire),
\* the spawned task, and the futures of the requests.
StartStep ==
    \/ \E outcome \in {"connected", "refused", "timeout"} : Connect(outcome)
    \/ Sleep
    \/ StoreHandle

TaskStep == \E ok \in BOOLEAN : TaskBind(ok)

HandleStep ==
    \E i \in AllReqIds : ResolveAddress(i) \/ CollectBody(i) \/ Respond(i)

InitStart == ServerIdle /\ AddrIdle /\ FrameIdle /\ StatusIdle

SpecStart ==
    /\ InitStart
    /\ [][StartNext]_vars
    /\ WF_vars(StartStep)
    /\ WF_vars(TaskStep)
    /\ WF_vars(HandleStep)

(***************************************************************************)
(* Properties of the method address (SpecMethod)                            *)
(***************************************************************************)

\* A string that begins with an uppercase letter (an empty string does not).
BeginsUppercase(s) == Len(s) > 0 /\ IsUppercase(s[1])

\* The last dot-separated segment of a service name.
LastSegment(service) == Split(service, ".")[Len(Split(service, "."))]

\* A path with at most one leading '/' removed.
StripLeadingSlash(p) == IF Len(p) > 0 /\ p[1] = "/" THEN Tail(p) ELSE p

\* C1: for every address x that GrpcMethod::new accepts, parsing x.path()
\* succeeds and gives back x (same service, same name), whatever characters
\* the two strings hold.
C1_RoundTrip ==
    (path_src = "format" /\ parsed # NoResult) => parsed = method

\* C2: GrpcMethod::new(service, name) fails with the naming error exactly
\* when the last dot-separated segment of service, or name, does not begin
\* with an uppercase letter (empty strings included), and succeeds otherwise.
C2_ConstructNaming ==
    (path_src = "none" /\ method # NoResult) =>
        LET wellNamed == /\ BeginsUppercase(LastSegment(in_service))
                         /\ BeginsUppercase(in_name)
        IN  /\ method.ok <=> wellNamed
            /\ ~wellNamed => method.err \in {ServiceUppercaseMsg, NameUppercaseMsg}

\* C3: parse succeeds only for a path that, with at most one leading '/'
\* removed, splits on '/' into exactly two non-empty segments; every other
\* path fails with the path-format error.
C3_ParseTwoNonEmptySegments ==
    parsed # NoResult =>
        LET segs == Split(StripLeadingSlash(path), "/")
            twoNonEmpty == Len(segs) = 2 /\ segs[1] # <<>> /\ segs[2] # <<>>
        IN  /\ parsed.ok => twoNonEmpty
            /\ ~twoNonEmpty => parsed = ErrInvalid(PathFormatMsg)

(***************************************************************************)
(* Properties of the message codec (SpecFrame)                              *)
(***************************************************************************)

\* C4: the frame to_bytes returns is 5 + len(payload) bytes long, its first
\* byte is 0, bytes 1..4 read as a big-endian unsigned integer give
\* len(payload), and the remaining bytes are the payload unchanged.  (Every
\* length here is below 2^31, so the first length byte is below 128.)
C4_FrameLayout ==
    frame # <<>> =>
        /\ Len(frame) = 5 + Len(payload)
        /\ frame[1] = 0
        /\ \A i \in 2..5 : frame[i] \in 0..255
        /\ frame[2] < 128
        /\ ((frame[2] * 256 + frame[3]) * 256 + frame[4]) * 256 + frame[5] = Len(payload)
        /\ \A i \in 1..Len(payload) : frame[5 + i] = payload[i]

\* A payload whose length needs three of the four length bytes was encoded.
C4_Witness == frame # <<>> /\ Len(payload) = 66051 /\ frame[3] = 1 /\ frame[4] = 2

(***************************************************************************)
(* Properties of the status table (SpecStatus)                              *)
(***************************************************************************)

\* C5: from_http maps 200 to Ok, 400 and 422 to Internal, 401 to
\* Unauthenticated, 403 to PermissionDenied, 404 to NotFound, 501 to
\* Unimplemented, 429/502/503/504 to Unavailable and every other status to
\* Unknown.
C5_StatusTable ==
    grpc_code # "none" =>
        /\ grpc_code = "Ok" <=> status_code = 200
        /\ grpc_code = "Internal" <=> status_code \in {400, 422}
        /\ grpc_code = "Unauthenticated" <=> status_code = 401
        /\ grpc_code = "PermissionDenied" <=> status_code = 403
        /\ grpc_code = "NotFound" <=> status_code = 404
        /\ grpc_code = "Unimplemented" <=> status_code = 501
        /\ grpc_code = "Unavailable" <=> status_code \in {429, 502, 503, 504}
        /\ grpc_code = "Unknown" <=>
                status_code \notin {200, 400, 401, 403, 404, 422, 429, 501, 502, 503, 504}

\* The second alternative of the first arm was taken.
C5_Witness == grpc_code = "Internal" /\ status_code = 422

(***************************************************************************)
(* Properties of the registry (SpecRegistry)                                *)
(***************************************************************************)

\* The bytes a body stands for: nothing, its bytes, or its chunks in order.
Flatten(body) ==
    IF body.tag = "Empty" THEN <<>>
    ELSE IF body.tag = "Full" THEN body.full
    ELSE Concat(body.chunks)

\* The positions of the method's list whose request body flattens to the bytes.
Matching(set, key, bytes) ==
    IF key \in DOMAIN set
    THEN {j \in 1..Len(set[key]) : Flatten(set[key][j].request.body) = bytes}
    ELSE {}

\* C6: find returns a mock exactly when the address is registered and some
\* mock of its list has a request body whose flattened bytes are the request
\* bytes; the mock returned is one of that list and is such a mock.
C6_FindIffByteIdentical ==
    found.called =>
        /\ found.index # 0 <=> Matching(mocks, found.method, found.body) # {}
        /\ found.index # 0 => found.index \in Matching(mocks, found.method, found.body)

\* find returned a mock whose request body is a Stream of two chunks.
C6_Witness ==
    /\ found.called
    /\ found.index # 0
    /\ mocks[found.method][found.index].request.body.tag = "Stream"
    /\ Len(mocks[found.method][found.index].request.body.chunks) = 2

\* C7: every insert leaves the mocks already in a list where they are and
\* puts the new one behind them, and when several mocks of the list match
\* the request bytes find returns the one at the lowest position, that is the
\* one inserted first.
C7_FirstInsertedWins ==
    /\ [][\A k \in DOMAIN mocks :
            /\ k \in DOMAIN mocks'
            /\ Len(mocks'[k]) >= Len(mocks[k])
            /\ SubSeq(mocks'[k], 1, Len(mocks[k])) = mocks[k]]_vars
    /\ [](found.called =>
            \A j \in Matching(mocks, found.method, found.body) : found.index <= j)

\* Two different mocks of one list match the bytes and find returned the first.
C7_Witness ==
    /\ found.called
    /\ found.index = 1
    /\ 2 \in Matching(mocks, found.method, found.body)
    /\ mocks[found.method][1] # mocks[found.method][2]

(***************************************************************************)
(* Properties of the request handler (Spec)                                 *)
(***************************************************************************)

\* The registry with the request headers of every mock replaced by h.
WithRequestHeaders(set, h) ==
    [k \in DOMAIN set |->
        [j \in 1..Len(set[k]) |-> [set[k][j] EXCEPT !.request.headers = h]]]

\* Every header set the model uses on a request or on a mock's request.
AnyHeaders == RequestHeaders \cup {TokenHeaders}

\* The mock a finished request was matched to.
MatchedMock(i) == server.mocks[Key(reqs[i].method)][reqs[i].matched]

\* C8: the mock selected and the response sent depend on the address and the
\* body bytes alone: they are the ones any registry differing only in the
\* mocks' request headers gives, whatever headers the request carries.
C8_HeadersIgnored ==
    \A i \in ReqIds :
        reqs[i].pc = "done" =>
            \A h \in AnyHeaders :
                /\ reqs[i].matched =
                        Find(WithRequestHeaders(server.mocks, h), reqs[i].method, reqs[i].body)
                /\ reqs[i].response =
                        Synthesize(WithRequestHeaders(server.mocks, h), reqs[i].method,
                                   reqs[i].body)

\* A request with headers was matched to a mock that declares other headers.
C8_Witness ==
    \E i \in ReqIds :
        /\ reqs[i].pc = "done"
        /\ reqs[i].matched # 0
        /\ reqs[i].headers # NoHeaders
        /\ MatchedMock(i).request.headers = TokenHeaders
        /\ MatchedMock(i).request.headers # reqs[i].headers

\* The payload of a request body with the five-byte envelope of each frame
\* removed.
StripEnvelopes(chunks) ==
    Concat([j \in 1..Len(chunks) |-> SubSeq(chunks[j], 6, Len(chunks[j]))])

\* The client-streaming mock for MsgA then MsgB.
StreamMock == ClientStreaming(<<MsgA, MsgB>>, MsgX)

\* Request i is finished and its method's list holds the client-streaming mock.
StreamMockRegistered(i) ==
    /\ reqs[i].pc = "done"
    /\ Key(reqs[i].method) \in DOMAIN server.mocks
    /\ \E j \in 1..Len(server.mocks[Key(reqs[i].method)]) :
            server.mocks[Key(reqs[i].method)][j] = StreamMock

HeaderValues(response, name) == {hv[2] : hv \in {x \in response.headers : x[1] = name}}

C11_UnmatchedNotFound ==
    \A i \in ReqIds :
        (reqs[i].pc = "done" /\ reqs[i].matched = 0) =>
            LET resp == reqs[i].response
            IN  /\ resp.status = 200
                /\ HeaderValues(resp, "grpc-status") = {5}
                /\ HeaderValues(resp, "grpc-message") = {}
                /\ resp.body = <<>>
                /\ \/ Key(reqs[i].method) \notin DOMAIN server.mocks
                   \/ \A j \in 1..Len(server.mocks[Key(reqs[i].method)]) :
                        Flatten(server.mocks[Key(reqs[i].method)][j].request.body)
                            # reqs[i].body

\* A request to a registered address whose mocks all expect other bytes was
\* answered NotFound.
C11_Witness ==
    \E i \in ReqIds :
        /\ reqs[i].pc = "done"
        /\ reqs[i].matched = 0
        /\ Key(reqs[i].method) \in DOMAIN server.mocks
        /\ Len(server.mocks[Key(reqs[i].method)]) > 0
        /\ reqs[i].body # <<>>
        /\ <<"grpc-status", 5>> \in reqs[i].response.headers

\* The response of a finished request is a mock's or the synthesized NotFound.
IsGrpcResponse(i) ==
    \/ /\ reqs[i].matched # 0
       /\ reqs[i].response =
            GrpcResponse(GrpcCode(MatchedMock(i).response),
                         ToBoxed(MatchedMock(i).response.body),
                         MatchedMock(i).response.error)
    \/ /\ reqs[i].matched = 0
       /\ reqs[i].response = GrpcResponse("NotFound", <<>>, NoError)

\* C12 as stated: a request never ends otherwise than with one response, the
\* matched mock's or NotFound: the handler does not panic, whatever the path
\* and whatever the body stream does, and a request that has left the
\* handler has such a response.
C12_AlwaysOneResponse ==
    \A i \in ReqIds :
        /\ reqs[i].pc # "panicked"
        /\ reqs[i].pc = "done" => IsGrpcResponse(i)

(***************************************************************************)
(* Properties of construction and start (SpecStart, SpecLifecycle)          *)
(***************************************************************************)

\* The set handed to MockServer::new has a method of another service.
ServiceMismatch == \E k \in DOMAIN mocks : k.service # ServiceName

\* C13: MockServer::new on a set with a method of another service returns
\* the error "invalid: all mocks must be for <name> service", and only then;
\* when it has, no port was probed, no task was spawned, start went no
\* further, and there is no instance (no address, no registry, no request).
C13_MismatchFailsFast ==
    server.status # "none" =>
        /\ server.status = "err" <=> ServiceMismatch
        /\ server.status = "err" =>
            /\ ErrorToString(server.err)
                    = <<"invalid: ", "all mocks must be for ", ServiceName, " service">>
            /\ probed = {}
            /\ task = "none"
            /\ life = NoStart
            /\ server.port = 0 /\ server.mocks = MockSetNew /\ ~server.inner
            /\ \A i \in AllReqIds : reqs[i] = IdleReq

\* new failed on a set that also holds a method of the declared service.
C13_Witness ==
    /\ server.status = "err"
    /\ \E k \in DOMAIN mocks : k.service = ServiceName
    /\ \E k \in DOMAIN mocks : k.service # ServiceName

\* C14 as stated: a connect attempt ends the readiness barrier exactly when
\* the connect succeeded; after an attempt that timed out or was refused
\* the barrier sleeps (and then tries again).
C14_ReadyOnlyOnConnect ==
    [][life'.attempts = life.attempts + 1 =>
            IF life'.last = "connected"
            THEN life'.pc = "store" /\ life'.broke
            ELSE life'.pc = "sleep" /\ ~life'.broke]_vars

\* Start has returned and the caller has dropped every instance.
AllDropped == life.pc = "returned" /\ life.instances = 0

\* C15 as stated: once every instance is dropped, the background task
\* eventually does not listen any more.
C15_DropStopsTask == AllDropped ~> (task # "listening")

\* C17: every method of the registry of a constructed instance has the
\* instance's declared service name, before start, during and after it, and
\* while requests are handled.
C17_KeysOfDeclaredService ==
    server.status = "ok" =>
        /\ server.name = ServiceName
        /\ \A k \in DOMAIN server.mocks : k.service = server.name

\* A started instance with a mock in its registry is handling a request.
C17_Witness ==
    /\ server.status = "ok"
    /\ DOMAIN server.mocks # {}
    /\ life.pc = "returned"
    /\ \E i \in AllReqIds : reqs[i].pc = "Lookup"

\* C18: start, once MockServer::new has returned an instance, returns it:
\* the task is spawned before the first connect attempt, there are at most
\* ConnectRetryMaxAttempts attempts, the barrier goes back to connecting only
\* out of the sleep, start ends with the JoinHandle stored in the instance
\* handed to the caller whether or not an attempt broke the loop and whether
\* or not the task could bind, and there is no error on the way.
C18_StartReturns ==
    /\ [](life.pc # "idle" => task # "none" /\ server.status = "ok")
    /\ [](life.attempts <= ConnectRetryMaxAttempts)
    /\ [][life'.pc = "barrier" => life.pc \in {"idle", "sleep", "barrier"}]_vars
    /\ [][life'.pc = "returned" /\ life.pc # "returned" =>
            server'.inner /\ life'.handle = "stored" /\ life'.instances = 1]_vars
    /\ [](life.pc = "returned" => server.inner)
    /\ (life.pc = "barrier") ~> (life.pc = "returned")

\* Start returned after ten attempts that all timed out, the task having
\* failed to bind.
C18_Witness ==
    /\ life.pc = "returned"
    /\ life.attempts = ConnectRetryMaxAttempts
    /\ ~life.broke
    /\ task = "failed"
    /\ server.status = "ok" /\ server.inner

\* C19: no step changes the registry of a constructed instance (start, the
\* handling of requests, clones and drops), and the answer to a request is
\* the one that registry gives for the request's path and bytes: two
\* requests with the same path and body get the same mock and response.
C19_RegistryNeverChanges ==
    /\ [][server.status = "ok" =>
            /\ server'.status = "ok"
            /\ server'.mocks = server.mocks
            /\ server'.name = server.name]_vars
    /\ [](\A i \in AllReqIds :
            reqs[i].pc = "done" =>
                reqs[i].response =
                    Synthesize(server.mocks, FromStr(reqs[i].path), Concat(reqs[i].chunks)))
    /\ [](\A i, j \in AllReqIds :
            (/\ reqs[i].pc = "done" /\ reqs[j].pc = "done"
             /\ reqs[i].path = reqs[j].path /\ reqs[i].chunks = reqs[j].chunks) =>
                /\ reqs[i].matched = reqs[j].matched
                /\ reqs[i].response = reqs[j].response)

\* A cloned, started instance answered the same request twice from the same
\* mock, which is still in the registry.
C19_Witness ==
    /\ life.pc = "returned"
    /\ life.instances = MaxClones
    /\ \A i \in AllReqIds : reqs[i].pc = "done" /\ reqs[i].matched = 1
    /\ reqs[1].chunks = reqs[2].chunks
    /\ server.mocks = mocks

(***************************************************************************)
(* Properties of registration (SpecRegistration)                            *)
(***************************************************************************)

\* C16 as stated: after any sequence of registrations (insert,
\* insert_from_file, collecting an iterator of pairs), the set has a list for
\* exactly the methods something was registered for, and the list of each
\* method is exactly the mocks registered for it, in the order of
\* registration.
C16_NothingDropped ==
    /\ DOMAIN mocks = DOMAIN registered
    /\ \A k \in DOMAIN mocks : mocks[k] = registered[k]

(***************************************************************************)
(* Properties of concurrent requests (SpecConcurrent)                       *)
(***************************************************************************)

\* How the handler ends for a request handled alone, and with what response.
AloneOutcome(set, p, chunks, fails) ==
    IF ~FromStr(p).ok \/ fails
    THEN [pc |-> "panicked", response |-> NoResponse]
    ELSE [pc |-> "done", response |-> Synthesize(set, FromStr(p), Concat(chunks))]

\* C20: with two requests in flight, whatever the order of their steps, the
\* bytes a request has collected are its own chunks read so far, and a
\* request ends as it would alone: its outcome and response are given by
\* the registry and its own path and body.
C20_RequestsIndependent ==
    \A i \in AllReqIds :
        /\ reqs[i].body = Concat(SubSeq(reqs[i].chunks, 1, reqs[i].read))
        /\ reqs[i].pc \in {"done", "panicked"} =>
                [pc |-> reqs[i].pc, response |-> reqs[i].response]
                    = AloneOutcome(server.mocks, reqs[i].path, reqs[i].chunks, reqs[i].fails)

\* Request 1 has read both of its frames and is about to look its body up
\* (a mock matches it) while request 2, with another body, is between
\* chunks.
C20_Witness ==
    /\ reqs[1].pc = "Lookup"
    /\ reqs[1].read = 2
    /\ Find(server.mocks, reqs[1].method, reqs[1].body) # 0
    /\ reqs[2].pc = "BodyCollection"
    /\ reqs[2].read = 1
    /\ reqs[2].chunks # reqs[1].chunks

(***************************************************************************)
(* Properties of the address of an instance (SpecLifecycle)                 *)
(***************************************************************************)

\* C21: a constructed instance has the address 0.0.0.0:p with
\* 40000 <= p < 60000, p is a port the construction probed and found
\* available, every other port it probed was busy, and no port outside the
\* range was probed; construction never ends without a port.
C21_PortProbedAndInRange ==
    server.status = "ok" =>
        /\ server.ip = "0.0.0.0"
        /\ 40000 <= server.port /\ server.port < 60000
        /\ server.port \in probed
        /\ PortIsAvailable(server.port)
        /\ \A q \in probed \ {server.port} : ~PortIsAvailable(q)
        /\ \A q \in probed : 40000 <= q /\ q < 60000

\* The instance got the second port drawn, the first being busy.
C21_Witness ==
    /\ server.status = "ok"
    /\ server.port = 59999
    /\ probed = {40001, 59999}

(***************************************************************************)
(* Properties of mock files (SpecLoad)                                      *)
(***************************************************************************)

\* The frames of the messages a list of JSON texts stands for.
FramesOf(texts) == [i \in 1..Len(texts) |-> ToBytes(JsonMessages[texts[i]])]

\* The body the `body` key of a file stands for: nothing is Empty, one
\* value is Full, a list is Full (flattened) in a request and Stream in a
\* response.
BodyOfDoc(doc_body, is_request) ==
    CASE doc_body.kind \in {"absent", "null"} -> BodyEmpty
      [] doc_body.kind = "value" -> BodyFull(FramesOf(doc_body.texts)[1])
      [] doc_body.kind = "list" ->
            IF is_request THEN BodyFull(Concat(FramesOf(doc_body.texts)))
            ELSE BodyStream(FramesOf(doc_body.texts))

\* A file with nothing wrong: readable, a mock file, a well-named method,
\* every body text a message.
SoundDoc(doc) ==
    /\ doc.readable /\ doc.wellformed
    /\ BeginsUppercase(LastSegment(doc.service)) /\ BeginsUppercase(doc.method)
    /\ \A i \in 1..Len(doc.mocks) :
        /\ \A j \in 1..Len(doc.mocks[i].request.body.texts) :
                doc.mocks[i].request.body.texts[j] \in DOMAIN JsonMessages
        /\ \A j \in 1..Len(doc.mocks[i].response.body.texts) :
                doc.mocks[i].response.body.texts[j] \in DOMAIN JsonMessages

\* C22 as stated: loading a sound file gives one mock per fixture, whose
\* request body is Empty for no body, Full for one value and Full of the
\* concatenated frames for a list, and whose response body is Empty, Full
\* and Stream (one chunk per value) in the same cases.
C22_BodiesOfLoadedMocks ==
    (loaded.called /\ SoundDoc(loaded.doc)) =>
        /\ loaded.result.ok
        /\ Len(loaded.result.mocks) = Len(loaded.doc.mocks)
        /\ \A i \in 1..Len(loaded.result.mocks) :
            /\ loaded.result.mocks[i].request.body
                    = BodyOfDoc(loaded.doc.mocks[i].request.body, TRUE)
            /\ loaded.result.mocks[i].response.body
                    = BodyOfDoc(loaded.doc.mocks[i].response.body, FALSE)

\* What is wrong with a file, in the order MockFile::read meets it.
ExpectedLoadError(doc) ==
    IF ~doc.readable THEN "io error"
    ELSE IF ~doc.wellformed
            \/ \E i \in 1..Len(doc.mocks) : doc.mocks[i].request.body.kind = "absent"
    THEN "yaml error"
    ELSE IF ~New(doc.service, doc.method).ok THEN "invalid"
    ELSE IF ~SoundDoc([doc EXCEPT !.service = ServiceName, !.method = <<"M">>])
    THEN "json error"
    ELSE ""

\* C23: insert_from_file on a file with something wrong returns the error
\* (io, yaml, invalid naming, json, by what is wrong first), and the step
\* leaves the set as it was: no list is added, none grows.
C23_FailedLoadChangesNothing ==
    /\ [](loaded.called =>
            /\ loaded.result.err = ExpectedLoadError(loaded.doc)
            /\ loaded.result.ok <=> ExpectedLoadError(loaded.doc) = ""
            /\ ~loaded.result.ok => loaded.result.mocks = <<>>)
    /\ [][(loaded' # loaded /\ ~loaded'.result.ok) =>
            mocks' = mocks /\ registered' = registered]_vars

\* A file whose second mock does not encode was loaded into a set that held
\* the mocks of an earlier file, and the set holds just those.
C23_Witness ==
    /\ loaded.called
    /\ loaded.result.err = "json error"
    /\ Len(loaded.doc.mocks) = 2
    /\ DOMAIN mocks # {}
    /\ \A k \in DOMAIN mocks : Len(mocks[k]) = 1
    /\ mocks = registered

\* C25 as stated: the address a loaded file gives, and every address the
\* set is keyed by, is well named: the last dot-separated segment of its
\* service and its name each begin with an uppercase letter.
C25_AddressesWellNamed ==
    /\ (loaded.called /\ loaded.result.ok) =>
            /\ BeginsUppercase(LastSegment(loaded.result.method.service))
            /\ BeginsUppercase(loaded.result.method.name)
    /\ \A k \in DOMAIN mocks :
            BeginsUppercase(LastSegment(k.service)) /\ BeginsUppercase(k.name)

(***************************************************************************)
(* Properties of the responses to mocks built in every way (SpecFixtures)   *)
(***************************************************************************)

\* A length-prefixed message: a zero flag byte, the length of the message in
\* four bytes (big-endian), then that many bytes.
IsFrame(c) ==
    /\ Len(c) >= 5
    /\ c[1] = 0
    /\ c[2] = 0
    /\ c[3] * 65536 + c[4] * 256 + c[5] = Len(c) - 5

\* C24 as stated: whatever way the matched mock's response body was built,
\* the response body is made of length-prefixed frames: one for a Full
\* body, one per chunk in chunk order for a Stream body, none for Empty.
C24_ResponseBodyIsFramed ==
    \A i \in ReqIds :
        (reqs[i].pc = "done" /\ reqs[i].matched # 0) =>
            LET body == MatchedMock(i).response.body
                sent == reqs[i].response.body
            IN  /\ \A k \in 1..Len(sent) : IsFrame(sent[k])
                /\ body.tag = "Empty" => sent = <<>>
                /\ body.tag = "Full" => Len(sent) = 1
                /\ body.tag = "Stream" => sent = body.chunks

\* The mocks made without a declared status: by the four constructors, or
\* with the default response.
UndeclaredStatusMocks ==
    { Unary(MsgA, MsgX),
      ClientStreaming(<<MsgA, MsgB>>, MsgX),
      ServerStreaming(MsgA, <<MsgX, MsgY>>),
      BidiStreaming(<<MsgA, MsgB>>, <<MsgX, MsgY>>),
      [request |-> [headers |-> TokenHeaders, body |-> BodyFull(ToBytes(MsgAB))],
       response |-> MockResponseNew(BodyEmpty)] }

\* C26: a mock made by a constructor, or with the default response, has
\* status 200 and no error text, and the request it answers gets grpc-status
\* 0 and no grpc-message.
C26_DefaultStatusIsOk ==
    /\ \A mock \in UndeclaredStatusMocks :
            mock.response.code = 200 /\ ~mock.response.error.some
    /\ \A i \in ReqIds :
        (reqs[i].pc = "done" /\ reqs[i].matched # 0
            /\ MatchedMock(i) \in UndeclaredStatusMocks) =>
            /\ HeaderValues(reqs[i].response, "grpc-status") = {0}
            /\ HeaderValues(reqs[i].response, "grpc-message") = {}

\* A request was answered by the server-streaming mock, with grpc-status 0.
C26_Witness ==
    \E i \in ReqIds :
        /\ reqs[i].pc = "done"
        /\ reqs[i].matched # 0
        /\ MatchedMock(i) = ServerStreaming(MsgA, <<MsgX, MsgY>>)
        /\ <<"grpc-status", 0>> \in reqs[i].response.headers

\* The names of the headers of a response.
HeaderNames(headers) == {h[1] : h \in headers}

\* C27: a response has the headers content-type: application/grpc and
\* grpc-status, and grpc-message exactly when a mock with an error text
\* answered, and no other: no header of the mock's response or request, and
\* none of the request's.
C27_ResponseHeaders ==
    \A i \in ReqIds :
        reqs[i].pc = "done" =>
            LET resp == reqs[i].response
                hasText == reqs[i].matched # 0 /\ MatchedMock(i).response.error.some
            IN  /\ HeaderNames(resp.headers) =
                        {"content-type", "grpc-status"}
                            \cup (IF hasText THEN {"grpc-message"} ELSE {})
                /\ Cardinality(resp.headers) = IF hasText THEN 3 ELSE 2
                /\ HeaderValues(resp, "content-type") = {"application/grpc"}
                /\ reqs[i].matched # 0 =>
                    /\ HeaderNames(MatchedMock(i).response.headers)
                            \cap HeaderNames(resp.headers) = {}
                    /\ HeaderNames(MatchedMock(i).request.headers)
                            \cap HeaderNames(resp.headers) = {}
                /\ HeaderNames(reqs[i].headers) \cap HeaderNames(resp.headers) = {}

\* A request carrying a header was answered by the mock built with
\* with_headers, and the answer has three headers.
C27_Witness ==
    \E i \in ReqIds :
        /\ reqs[i].pc = "done"
        /\ reqs[i].matched # 0
        /\ MatchedMock(i).response.headers = TokenHeaders
        /\ reqs[i].headers # NoHeaders
        /\ Cardinality(reqs[i].response.headers) = 3

====
